---- MODULE Spec2Model ----
(***************************************************************************)
(* Model of the Store Access Layer of infradon2:                           *)
(*   src/infradon2/src/services/database.service.ts (class DatabaseService)*)
(* together with the behaviour of the PouchDB handle it calls (post, get,  *)
(* put, remove, allDocs, info, close), and of the Presentation Driver:     *)
(*   src/infradon2/src/components/DatabaseManager.vue.                     *)
(* Spec is the service under any caller; DriverSpec is the service as the  *)
(* mounted component calls it.                                             *)
(*                                                                         *)
(* Every async method is cut at its awaits: the step up to the first await *)
(* (entry check, request issued), and one step per store response (the     *)
(* store serves the request and the continuation runs up to the next await *)
(* or to the return/throw).  Requests of different callers are served in   *)
(* any order.                                                              *)
(***************************************************************************)
EXTENDS Integers, Sequences, FiniteSets, TLC

\* ------------------------------------------------------------------ bounds
\* Total number of method calls made on the service in one behaviour.
MaxOps == 4
\* Last value of the wall clock read by new Date().
MaxTime == 2

\* ------------------------------------------------------------ value domains
\* The calls in progress on the service: a call takes the first free slot and
\* its outcome stays there until the slot is taken again.
Procs == {1, 2}
\* Identifiers the store can assign (uuids: any unused one).
DocIds == {1, 2}
\* `this.db` when there is no handle.
NULL == 0
\* A field that is not present in an object (string-valued fields).
ABSENT == "absent"
\* The empty string, falsy under `||`.
EMPTY == ""
\* No _id / no _rev in an object.
NoId == 0
NoRev == 0
\* An error value without a status property (undefined).
NoStatus == 0

\* new Date().toISOString() at clock tick n.
toISOString(n) == <<"2026-01-01T00:00:01Z", "2026-01-01T00:00:02Z",
                    "2026-01-01T00:00:03Z", "2026-01-01T00:00:04Z">>[n]

\* Values a caller gives to the user fields.
Titles == {"A"}
Contents == {"x"}
\* createdAt as a caller may supply it: missing, empty, or a timestamp of its own.
SuppliedCreatedAt == {ABSENT, EMPTY, "2020-05-05T00:00:00Z"}

\* The argument of createDocument: Omit<DatabaseDocument, '_id' | '_rev'>.
NewDocuments ==
  [_id : {NoId}, _rev : {NoRev}, title : Titles, content : Contents,
   createdAt : SuppliedCreatedAt]

\* The second argument of updateDocument: Partial<DatabaseDocument>.
\* One names a user field, one names createdAt, one names an _id and a _rev of
\* its own (no store made that _rev) next to a user field.
Partials ==
  {[_id |-> NoId, _rev |-> NoRev, title |-> "B", content |-> ABSENT,
    createdAt |-> ABSENT],
   [_id |-> NoId, _rev |-> NoRev, title |-> ABSENT, content |-> ABSENT,
    createdAt |-> "2020-05-05T00:00:00Z"],
   [_id |-> 2, _rev |-> 9, title |-> ABSENT, content |-> "y",
    createdAt |-> ABSENT]}

UserKeys == {"title", "content"}

\* ------------------------------------------------------------------- state
VARIABLES
  db,         \* DatabaseService.db: NULL or the handle made by new PouchDB
  nextHandle, \* number of handles made so far (handle identities)
  closedH,    \* handles on which close() was called
  reachable,  \* whether a store answers at dbUrl
  docs,       \* store: id -> stored document (winning revision), or NoDoc
  deleted,    \* store: ids whose winning revision is a tombstone
  now,        \* wall clock: the last value new Date() gave
  pc,         \* per caller: where its current call stands
  call,       \* per caller: the method called and its arguments
  req,        \* per caller: the store request in flight
  local,      \* per caller: existingDoc / doc held across the second await
  ret,        \* per caller: how the call ended (returned value or thrown error)
  nOps,       \* number of calls made so far
  initOk,     \* history: some initialize has had its liveness check succeed
  closedSince,\* history: a close has completed and initialize was not called since
  lastWrite,  \* history: per id, the last write the store accepted
  seen,       \* history: per caller, lastWrite of the id when its read was served
  rows,       \* per caller: the answer to its allDocs, made and not yet delivered
  databaseService, \* component data: null or the DatabaseService instance
  documents,  \* component data: the list displayed
  newDocument,\* component data: the form fields
  status,     \* component data: {message, type}
  isLoading,  \* component data
  act,        \* per caller: the component method awaiting the call in that slot
  life,       \* the component: created, mounted or unmounted
  lastFetch,  \* history: how the last fetchDocuments that ended ended
  uncaught    \* history: an error left a component method or hook

\* The component's state.
drv == <<databaseService, documents, newDocument, status, isLoading, act, life,
         lastFetch, uncaught>>

vars == <<db, nextHandle, closedH, reachable, docs, deleted, now, pc, call, req,
          local, ret, nOps, initOk, closedSince, lastWrite, seen, rows,
          databaseService, documents, newDocument, status, isLoading, act, life,
          lastFetch, uncaught>>

NoDoc == [_id |-> NoId, _rev |-> NoRev, title |-> ABSENT, content |-> ABSENT,
          createdAt |-> ABSENT]
NoReq == [op |-> "none"]
NoCall == [op |-> "none"]
NoRet == [kind |-> "none"]
NoWrite == [kind |-> "none"]

\* ------------------------------------------------------------ store errors
\* What PouchDB rejects with.  status = NoStatus: the error has no status.
NotFound == [status |-> 404, name |-> "not_found"]
Conflict == [status |-> 409, name |-> "conflict"]
\* A call on a handle after close() was called on it.
ClosedError == [status |-> NoStatus, name |-> "database is closed"]
\* `this.db.put` / `this.db.remove` evaluated while this.db is null.
TypeError == [status |-> NoStatus, name |-> "TypeError"]
\* The optional second argument of handleError when it is not given.
Undefined == [status |-> NoStatus, name |-> "undefined"]
\* What a request gets when nothing answers at dbUrl: a network error
\* without a status, or a gateway's status.
UnreachableErrors == {[status |-> NoStatus, name |-> "fetch_failed"],
                      [status |-> 502, name |-> "bad_gateway"]}

\* ------------------------------------------------------- DatabaseService
Msg(text, id) == [text |-> text, id |-> id]
MsgNotInitialized == Msg("Database not initialized", NoId)
MsgInitialize == Msg("Failed to initialize database", NoId)
MsgCreate == Msg("Failed to create document", NoId)
MsgFetchAll == Msg("Failed to fetch documents", NoId)
MsgFetch(id) == Msg("Failed to fetch document with id", id)
MsgUpdate(id) == Msg("Failed to update document with id", id)
MsgDelete(id) == Msg("Failed to delete document with id", id)

\* handleError: status: error?.status || 500.
handleError(message, error) ==
  [status |-> IF error.status # NoStatus THEN error.status ELSE 500,
   message |-> message,
   error |-> error]

Return(v) == [kind |-> "return", value |-> v]
Throw(e) == [kind |-> "throw", error |-> e]
Void == "void"
DatabaseResponse(id, rev) == [ok |-> TRUE, id |-> id, rev |-> rev]

\* A string that `||` keeps.
Truthy(s) == s \notin {ABSENT, EMPTY}

\* initialize, catch block: handleError is called and its value dropped.
InitializeCatch(error) == Return(Void)

\* As PostedDocument, with createdAt always taken from the clock.
PostedDocumentStamped(document, t) ==
  [document EXCEPT !.createdAt = toISOString(t)]

\* createDocument: the object given to post.
PostedDocument(document, t) ==
  [document EXCEPT !.createdAt = IF Truthy(document.createdAt)
                                 THEN document.createdAt
                                 ELSE toISOString(t)]

\* As MergedDocument, with the spreads in the other order:
\* {...document, ...existingDoc, _id: id, _rev: existingDoc._rev}.
MergedDocumentExistingWins(existingDoc, document, id) ==
  [existingDoc EXCEPT !._id = id]

\* As MergedDocument, with the spreads last:
\* {_id: id, _rev: existingDoc._rev, ...existingDoc, ...document}.
MergedDocumentPartialLast(existingDoc, document, id) ==
  [_id |-> IF document._id # NoId THEN document._id ELSE existingDoc._id,
   _rev |-> IF document._rev # NoRev THEN document._rev ELSE existingDoc._rev,
   title |-> IF document.title # ABSENT THEN document.title ELSE existingDoc.title,
   content |-> IF document.content # ABSENT THEN document.content
               ELSE existingDoc.content,
   createdAt |-> IF document.createdAt # ABSENT THEN document.createdAt
                 ELSE existingDoc.createdAt]

\* updateDocument: {...existingDoc, ...document, _id: id, _rev: existingDoc._rev}.
MergedDocument(existingDoc, document, id) ==
  [_id |-> id,
   _rev |-> existingDoc._rev,
   title |-> IF document.title # ABSENT THEN document.title ELSE existingDoc.title,
   content |-> IF document.content # ABSENT THEN document.content
               ELSE existingDoc.content,
   createdAt |-> IF document.createdAt # ABSENT THEN document.createdAt
                 ELSE existingDoc.createdAt]

\* As UpdatePutRejected, without the throw (as initialize's catch block is).
UpdatePutRejectedDropped(id, error) == Return(Void)

\* updateDocument, catch block after a rejected put.
UpdatePutRejected(id, error) == Throw(handleError(MsgUpdate(id), error))

\* As DeleteGetRejected, with the error of the read not handed to handleError.
DeleteGetRejectedNoCause(id, error) == Throw(handleError(MsgDelete(id), Undefined))

\* deleteDocument, catch block after a rejected get.
DeleteGetRejected(id, error) == Throw(handleError(MsgDelete(id), error))

\* As DbAfterClose, without the assignment this.db = null.
DbAfterCloseKept == db

\* close: the value given to this.db once db.close() has resolved.
DbAfterClose == NULL

\* ------------------------------------------------------------------ store
Live(id) == id \in DocIds /\ docs[id] # NoDoc /\ id \notin deleted
UnusedIds == {i \in DocIds : docs[i] = NoDoc}

Request(op, h, id, doc) ==
  [op |-> op, h |-> h, id |-> id, doc |-> doc, closed |-> h \in closedH]

\* What an awaited store call gives its caller.
Resolved(doc) == [ok |-> TRUE, doc |-> doc, error |-> Undefined]
Rejected(error) == [ok |-> FALSE, doc |-> NoDoc, error |-> error]

\* db.get(id)
StoreGet(id) == IF Live(id) THEN Resolved(docs[id]) ELSE Rejected(NotFound)

\* As RemoveRequest, calling put(doc) where remove(doc) is meant.
RemoveRequestAsPut(h, doc) == Request("put", h, doc._id, doc)

\* deleteDocument: this.db.remove(doc).
RemoveRequest(h, doc) == Request("remove", h, doc._id, doc)

\* db.put(doc) / db.remove(doc): accepted iff doc names the winning revision.
StoreAccepts(doc) ==
  /\ doc._id \in DocIds
  /\ docs[doc._id] # NoDoc
  /\ doc._rev = docs[doc._id]._rev

RECURSIVE DescendingRows(_)
\* db.allDocs({include_docs: true, descending: true}): rows by _id, descending.
DescendingRows(ids) ==
  IF ids = {} THEN <<>>
  ELSE LET m == CHOOSE i \in ids : \A j \in ids : j <= i
       IN <<docs[m]>> \o DescendingRows(ids \ {m})

\* The store once it took the write r (a put or a remove) as the next revision:
\* put stores r.doc, remove leaves a tombstone.
DocsAfter(r) ==
  [docs EXCEPT ![r.doc._id] =
     IF r.op = "remove" THEN [@ EXCEPT !._rev = r.doc._rev + 1]
     ELSE [r.doc EXCEPT !._rev = r.doc._rev + 1]]
DeletedAfter(r) ==
  IF r.op = "remove" THEN deleted \cup {r.doc._id} ELSE deleted \ {r.doc._id}

StoreAllDocs == DescendingRows({i \in DocIds : Live(i)})

\* What a request gets instead of the store's answer: the handle was closed
\* when the request was made, or nothing answers at dbUrl.
TransportErrors(r) ==
  IF r.closed THEN {ClosedError}
  ELSE IF ~reachable THEN UnreachableErrors
  ELSE {}

\* ----------------------------------------------------------------- callers
NoLocal == [ok |-> FALSE, doc |-> NoDoc, error |-> Undefined, none |-> TRUE]
Call(op, id, doc) == [op |-> op, id |-> id, doc |-> doc, at |-> 0]

Free(p) == pc[p] \in {"idle", "done"}
CanCall(p) == Free(p) /\ (\A q \in Procs : q < p => ~Free(q)) /\ nOps < MaxOps

\* The call is made and runs up to its first await.
Await(p, c, r, label) ==
  /\ pc' = [pc EXCEPT ![p] = label]
  /\ call' = [call EXCEPT ![p] = c]
  /\ req' = [req EXCEPT ![p] = r]
  /\ ret' = [ret EXCEPT ![p] = NoRet]
  /\ local' = [local EXCEPT ![p] = NoLocal]
  /\ seen' = [seen EXCEPT ![p] = NoWrite]
  /\ nOps' = nOps + 1

\* The call is made and ends before any await.
EndAtEntry(p, c, result) ==
  /\ pc' = [pc EXCEPT ![p] = "done"]
  /\ call' = [call EXCEPT ![p] = c]
  /\ req' = [req EXCEPT ![p] = NoReq]
  /\ ret' = [ret EXCEPT ![p] = result]
  /\ local' = [local EXCEPT ![p] = NoLocal]
  /\ seen' = [seen EXCEPT ![p] = NoWrite]
  /\ nOps' = nOps + 1

\* The continuation after an await runs up to the next await.
AwaitNext(p, resp, r, label) ==
  /\ pc' = [pc EXCEPT ![p] = label]
  /\ req' = [req EXCEPT ![p] = r]
  /\ local' = [local EXCEPT ![p] = resp]
  /\ UNCHANGED <<call, ret, nOps>>

\* The continuation after an await runs to the return or the throw.
End(p, resp, result) ==
  /\ pc' = [pc EXCEPT ![p] = "done"]
  /\ req' = [req EXCEPT ![p] = NoReq]
  /\ local' = [local EXCEPT ![p] = resp]
  /\ ret' = [ret EXCEPT ![p] = result]
  /\ UNCHANGED <<call, nOps>>

NotInitialized == Throw(handleError(MsgNotInitialized, Undefined))

\* No answer to an allDocs is on its way.
NotServed == [served |-> FALSE, docs |-> <<>>]

\* ------------------------------------------------------- DatabaseManager
\* The instance createDatabaseService gives.
TheService == 1
\* updateStatus: this.status = { message, type }.
Status(message, type) == [message |-> message, type |-> type]
\* The messages the component writes itself; `n documents loaded` has its n.
MsgNone == Msg("", NoId)
MsgRequired == Msg("Title and content are required", NoId)
MsgConnected == Msg("Connected to database", NoId)
MsgAdded == Msg("Document added successfully", NoId)
MsgDeleted == Msg("Document deleted successfully", NoId)
MsgLoaded(n) == Msg("documents loaded", n)
\* What the user can type into the form.
FormTitles == {EMPTY} \cup Titles
FormContents == {EMPTY} \cup Contents
\* No component method awaits the call of a slot.
NoAct == [name |-> "none", at |-> "none"]

\* data(): the component as created.
data ==
  /\ documents = <<>>
  /\ newDocument = [title |-> EMPTY, content |-> EMPTY]
  /\ status = Status(MsgNone, "info")
  /\ isLoading = FALSE
  /\ databaseService = NULL
  /\ act = [p \in Procs |-> NoAct]
  /\ life = "created"
  /\ lastFetch = "none"
  /\ uncaught = FALSE

Init ==
  /\ db = NULL
  /\ nextHandle = 0
  /\ closedH = {}
  /\ reachable \in BOOLEAN
  /\ docs = [i \in DocIds |-> NoDoc]
  /\ deleted = {}
  /\ now = 1
  /\ pc = [p \in Procs |-> "idle"]
  /\ call = [p \in Procs |-> NoCall]
  /\ req = [p \in Procs |-> NoReq]
  /\ local = [p \in Procs |-> NoLocal]
  /\ ret = [p \in Procs |-> NoRet]
  /\ nOps = 0
  /\ initOk = FALSE
  /\ closedSince = FALSE
  /\ lastWrite = [i \in DocIds |-> NoWrite]
  /\ seen = [p \in Procs |-> NoWrite]
  /\ rows = [p \in Procs |-> NotServed]
  /\ data

\* initialize(): this.db = new PouchDB(this.dbUrl); this.db.info() is called.
Initialize(p) ==
  /\ CanCall(p)
  /\ db' = nextHandle + 1
  /\ nextHandle' = nextHandle + 1
  /\ Await(p, Call("initialize", NoId, NoDoc),
           [op |-> "info", h |-> nextHandle + 1, id |-> NoId, doc |-> NoDoc,
            closed |-> FALSE],
           "initialize_info")
  /\ closedSince' = FALSE
  /\ UNCHANGED <<closedH, reachable, docs, deleted, now, initOk, lastWrite>>

\* initialize(): info() resolves, or rejects and the catch block runs.
InitializeInfo(p) ==
  /\ pc[p] = "initialize_info"
  /\ \/ /\ TransportErrors(req[p]) = {}
        /\ End(p, Resolved(NoDoc), Return(Void))
        /\ initOk' = TRUE
     \/ /\ \E e \in TransportErrors(req[p]) :
             End(p, Rejected(e), InitializeCatch(e))
        /\ UNCHANGED initOk
  /\ UNCHANGED <<db, nextHandle, closedH, reachable, docs, deleted, now,
                 closedSince, lastWrite, seen>>

\* close(): this.db is null, nothing to do; else db.close() is called.
Close(p) ==
  /\ CanCall(p)
  /\ IF db = NULL
     THEN /\ EndAtEntry(p, Call("close", NoId, NoDoc), Return(Void))
          /\ closedSince' = TRUE
          /\ UNCHANGED closedH
     ELSE /\ Await(p, Call("close", NoId, NoDoc), Request("close", db, NoId, NoDoc),
                   "close_close")
          /\ closedH' = closedH \cup {db}
          /\ UNCHANGED closedSince
  /\ UNCHANGED <<db, nextHandle, reachable, docs, deleted, now, initOk, lastWrite>>

\* close(): db.close() resolves and this.db = null, or it rejects (the handle
\* was closed already) and the error leaves close() as it is.
CloseClose(p) ==
  /\ pc[p] = "close_close"
  /\ IF req[p].closed
     THEN /\ End(p, Rejected(ClosedError), Throw(ClosedError))
          /\ UNCHANGED <<db, closedSince>>
     ELSE /\ End(p, Resolved(NoDoc), Return(Void))
          /\ db' = DbAfterClose
          /\ closedSince' = TRUE
  /\ UNCHANGED <<nextHandle, closedH, reachable, docs, deleted, now,
                 initOk, lastWrite, seen>>

\* createDocument(document): entry check, then this.db.post({...}) is called;
\* new Date() gives t, not before the value it gave last.
CreateDocument(p, document, t) ==
  /\ CanCall(p)
  /\ IF db = NULL
     THEN /\ EndAtEntry(p, Call("createDocument", NoId, document), NotInitialized)
          /\ UNCHANGED now
     ELSE /\ Cardinality(UnusedIds)
               > Cardinality({q \in Procs : req[q].op = "post"})
          /\ t >= now
          /\ now' = t
          /\ Await(p, [Call("createDocument", NoId, document) EXCEPT !.at = t],
                   Request("post", db, NoId, PostedDocument(document, t)),
                   "createDocument_post")
  /\ UNCHANGED <<db, nextHandle, closedH, reachable, docs, deleted, initOk,
                 closedSince, lastWrite>>

\* createDocument: post resolves (the store assigns an unused id and the first
\* revision) or rejects.
CreateDocumentPost(p) ==
  /\ pc[p] = "createDocument_post"
  /\ IF TransportErrors(req[p]) # {}
     THEN /\ \E e \in TransportErrors(req[p]) :
               End(p, Rejected(e), Throw(handleError(MsgCreate, e)))
          /\ UNCHANGED <<docs, lastWrite>>
     ELSE \E id \in UnusedIds :
            LET stored == [req[p].doc EXCEPT !._id = id, !._rev = 1]
            IN /\ docs' = [docs EXCEPT ![id] = stored]
               /\ lastWrite' = [lastWrite EXCEPT ![id] =
                    [kind |-> "create", input |-> call[p].doc, prior |-> NoDoc,
                     at |-> call[p].at, rev |-> 1]]
               /\ End(p, Resolved(stored), Return(DatabaseResponse(id, 1)))
  /\ UNCHANGED <<db, nextHandle, closedH, reachable, deleted, now, initOk,
                 closedSince, seen>>

\* getAllDocuments(): entry check, then this.db.allDocs({...}) is called.
GetAllDocuments(p) ==
  /\ CanCall(p)
  /\ IF db = NULL
     THEN EndAtEntry(p, Call("getAllDocuments", NoId, NoDoc), NotInitialized)
     ELSE Await(p, Call("getAllDocuments", NoId, NoDoc),
                Request("allDocs", db, NoId, NoDoc), "getAllDocuments_allDocs")
  /\ UNCHANGED <<db, nextHandle, closedH, reachable, docs, deleted, now, initOk,
                 closedSince, lastWrite>>

\* The store makes its answer to the allDocs of slot p; the answer is on its
\* way to the caller while other requests are served.
AllDocsServed(p) ==
  /\ pc[p] = "getAllDocuments_allDocs"
  /\ ~rows[p].served
  /\ TransportErrors(req[p]) = {}
  /\ rows' = [rows EXCEPT ![p] = [served |-> TRUE, docs |-> StoreAllDocs]]
  /\ UNCHANGED <<db, nextHandle, closedH, reachable, docs, deleted, now, pc, call,
                 req, local, ret, nOps, initOk, closedSince, lastWrite, seen>>

\* getAllDocuments: allDocs resolves (rows mapped to their docs: the answer on
\* its way, or the one the store makes now) or rejects.
GetAllDocumentsAllDocs(p) ==
  /\ pc[p] = "getAllDocuments_allDocs"
  /\ IF TransportErrors(req[p]) # {}
     THEN \E e \in TransportErrors(req[p]) :
            End(p, Rejected(e), Throw(handleError(MsgFetchAll, e)))
     ELSE End(p, Resolved(NoDoc),
              Return(IF rows[p].served THEN rows[p].docs ELSE StoreAllDocs))
  /\ rows' = [rows EXCEPT ![p] = NotServed]
  /\ UNCHANGED <<db, nextHandle, closedH, reachable, docs, deleted, now, initOk,
                 closedSince, lastWrite, seen>>

\* getDocumentById(id): entry check, then this.db.get(id) is called.
GetDocumentById(p, id) ==
  /\ CanCall(p)
  /\ IF db = NULL
     THEN EndAtEntry(p, Call("getDocumentById", id, NoDoc), NotInitialized)
     ELSE Await(p, Call("getDocumentById", id, NoDoc),
                Request("get", db, id, NoDoc), "getDocumentById_get")
  /\ UNCHANGED <<db, nextHandle, closedH, reachable, docs, deleted, now, initOk,
                 closedSince, lastWrite>>

\* getDocumentById: get resolves with the document or rejects.
GetDocumentByIdGet(p) ==
  /\ pc[p] = "getDocumentById_get"
  /\ IF TransportErrors(req[p]) # {}
     THEN /\ \E e \in TransportErrors(req[p]) :
               End(p, Rejected(e), Throw(handleError(MsgFetch(req[p].id), e)))
          /\ UNCHANGED seen
     ELSE LET resp == StoreGet(req[p].id)
          IN /\ IF resp.ok
                THEN End(p, resp, Return(resp.doc))
                ELSE End(p, resp, Throw(handleError(MsgFetch(req[p].id), resp.error)))
             /\ seen' = [seen EXCEPT ![p] = lastWrite[req[p].id]]
  /\ UNCHANGED <<db, nextHandle, closedH, reachable, docs, deleted, now, initOk,
                 closedSince, lastWrite>>

\* updateDocument(id, document): entry check, then this.db.get(id) is called.
UpdateDocument(p, id, document) ==
  /\ CanCall(p)
  /\ IF db = NULL
     THEN EndAtEntry(p, Call("updateDocument", id, document), NotInitialized)
     ELSE Await(p, Call("updateDocument", id, document),
                Request("get", db, id, NoDoc), "updateDocument_get")
  /\ UNCHANGED <<db, nextHandle, closedH, reachable, docs, deleted, now, initOk,
                 closedSince, lastWrite>>

\* updateDocument: get resolves with existingDoc and this.db.put({...}) is
\* called (a TypeError when this.db is null by now), or get rejects.
UpdateDocumentGet(p) ==
  /\ pc[p] = "updateDocument_get"
  /\ LET id == call[p].id
     IN IF TransportErrors(req[p]) # {}
        THEN \E e \in TransportErrors(req[p]) :
               End(p, Rejected(e), Throw(handleError(MsgUpdate(id), e)))
        ELSE LET resp == StoreGet(id)
             IN IF ~resp.ok
                THEN End(p, resp, Throw(handleError(MsgUpdate(id), resp.error)))
                ELSE IF db = NULL
                THEN End(p, resp, Throw(handleError(MsgUpdate(id), TypeError)))
                ELSE AwaitNext(p, resp,
                       Request("put", db, id,
                               MergedDocument(resp.doc, call[p].doc, id)),
                       "updateDocument_put")
  /\ UNCHANGED <<db, nextHandle, closedH, reachable, docs, deleted, now, initOk,
                 closedSince, lastWrite, seen>>

\* updateDocument: put resolves (the store took the write and made the next
\* revision) or rejects (conflict, or no answer).
UpdateDocumentPut(p) ==
  /\ pc[p] = "updateDocument_put"
  /\ LET id == call[p].id
         doc == req[p].doc
     IN IF TransportErrors(req[p]) # {}
        THEN /\ \E e \in TransportErrors(req[p]) :
                  End(p, local[p], UpdatePutRejected(id, e))
             /\ UNCHANGED <<docs, deleted, lastWrite>>
        ELSE IF ~StoreAccepts(doc)
        THEN /\ End(p, local[p], UpdatePutRejected(id, Conflict))
             /\ UNCHANGED <<docs, deleted, lastWrite>>
        ELSE LET rev == doc._rev + 1
             IN /\ docs' = DocsAfter(req[p])
                /\ deleted' = DeletedAfter(req[p])
                /\ lastWrite' = [lastWrite EXCEPT ![doc._id] =
                     [kind |-> "update", input |-> call[p].doc,
                      prior |-> docs[doc._id], at |-> 0, rev |-> rev]]
                /\ End(p, local[p], Return(DatabaseResponse(doc._id, rev)))
  /\ UNCHANGED <<db, nextHandle, closedH, reachable, now, initOk, closedSince,
                 seen>>

\* deleteDocument(id): entry check, then this.db.get(id) is called.
DeleteDocument(p, id) ==
  /\ CanCall(p)
  /\ IF db = NULL
     THEN EndAtEntry(p, Call("deleteDocument", id, NoDoc), NotInitialized)
     ELSE Await(p, Call("deleteDocument", id, NoDoc),
                Request("get", db, id, NoDoc), "deleteDocument_get")
  /\ UNCHANGED <<db, nextHandle, closedH, reachable, docs, deleted, now, initOk,
                 closedSince, lastWrite>>

\* deleteDocument: get resolves with doc and this.db.remove(doc) is called (a
\* TypeError when this.db is null by now), or get rejects.
DeleteDocumentGet(p) ==
  /\ pc[p] = "deleteDocument_get"
  /\ LET id == call[p].id
     IN IF TransportErrors(req[p]) # {}
        THEN \E e \in TransportErrors(req[p]) :
               End(p, Rejected(e), Throw(handleError(MsgDelete(id), e)))
        ELSE LET resp == StoreGet(id)
             IN IF ~resp.ok
                THEN End(p, resp, DeleteGetRejected(id, resp.error))
                ELSE IF db = NULL
                THEN End(p, resp, Throw(handleError(MsgDelete(id), TypeError)))
                ELSE AwaitNext(p, resp, RemoveRequest(db, resp.doc),
                               "deleteDocument_remove")
  /\ UNCHANGED <<db, nextHandle, closedH, reachable, docs, deleted, now, initOk,
                 closedSince, lastWrite, seen>>

\* deleteDocument: remove resolves (the store wrote a tombstone as the next
\* revision) or rejects (conflict, or no answer).
DeleteDocumentRemove(p) ==
  /\ pc[p] = "deleteDocument_remove"
  /\ LET id == call[p].id
         doc == req[p].doc
     IN IF TransportErrors(req[p]) # {}
        THEN /\ \E e \in TransportErrors(req[p]) :
                  End(p, local[p], Throw(handleError(MsgDelete(id), e)))
             /\ UNCHANGED <<docs, deleted, lastWrite>>
        ELSE IF ~StoreAccepts(doc)
        THEN /\ End(p, local[p], Throw(handleError(MsgDelete(id), Conflict)))
             /\ UNCHANGED <<docs, deleted, lastWrite>>
        ELSE LET rev == doc._rev + 1
             IN /\ docs' = DocsAfter(req[p])
                /\ deleted' = DeletedAfter(req[p])
                /\ lastWrite' = [lastWrite EXCEPT ![doc._id] =
                     [kind |-> "delete", input |-> NoDoc,
                      prior |-> docs[doc._id], at |-> 0, rev |-> rev]]
                /\ End(p, local[p], Return(DatabaseResponse(doc._id, rev)))
  /\ UNCHANGED <<db, nextHandle, closedH, reachable, now, initOk, closedSince,
                 seen>>

\* The service under any caller: no component.
Next ==
  \/ \E p \in Procs : Initialize(p) /\ UNCHANGED <<rows, drv>>
  \/ \E p \in Procs : InitializeInfo(p) /\ UNCHANGED <<rows, drv>>
  \/ \E p \in Procs : Close(p) /\ UNCHANGED <<rows, drv>>
  \/ \E p \in Procs : CloseClose(p) /\ UNCHANGED <<rows, drv>>
  \/ \E p \in Procs : \E document \in NewDocuments : \E t \in 1..MaxTime :
       CreateDocument(p, document, t) /\ UNCHANGED <<rows, drv>>
  \/ \E p \in Procs : CreateDocumentPost(p) /\ UNCHANGED <<rows, drv>>
  \/ \E p \in Procs : GetAllDocuments(p) /\ UNCHANGED <<rows, drv>>
  \/ \E p \in Procs : GetAllDocumentsAllDocs(p) /\ UNCHANGED drv
  \/ \E p \in Procs : \E id \in DocIds :
       GetDocumentById(p, id) /\ UNCHANGED <<rows, drv>>
  \/ \E p \in Procs : GetDocumentByIdGet(p) /\ UNCHANGED <<rows, drv>>
  \/ \E p \in Procs : \E id \in DocIds : \E document \in Partials :
       UpdateDocument(p, id, document) /\ UNCHANGED <<rows, drv>>
  \/ \E p \in Procs : UpdateDocumentGet(p) /\ UNCHANGED <<rows, drv>>
  \/ \E p \in Procs : UpdateDocumentPut(p) /\ UNCHANGED <<rows, drv>>
  \/ \E p \in Procs : \E id \in DocIds :
       DeleteDocument(p, id) /\ UNCHANGED <<rows, drv>>
  \/ \E p \in Procs : DeleteDocumentGet(p) /\ UNCHANGED <<rows, drv>>
  \/ \E p \in Procs : DeleteDocumentRemove(p) /\ UNCHANGED <<rows, drv>>

Spec == Init /\ [][Next]_vars

\* ------------------------------------------------------- DatabaseManager
\* The service's own state, but the answers on their way.
svc == <<db, nextHandle, closedH, reachable, docs, deleted, now, pc, call, req,
         local, ret, nOps, initOk, closedSince, lastWrite, seen>>

\* The call a component method awaited has ended: its continuation runs before
\* any other event is handled.
Pending(p) == act[p] # NoAct /\ pc[p] = "done"
NoPending == \A p \in Procs : ~Pending(p)
Frame(name, at) == [name |-> name, at |-> at]
\* The method in slot p goes on awaiting the call it makes in slot q.
Awaits(p, q, frame) == act' = [[act EXCEPT ![p] = NoAct] EXCEPT ![q] = frame]
\* The method in slot p ends.
Ends(p) == act' = [act EXCEPT ![p] = NoAct]

\* What the template lets the user reach: the submit button is disabled and
\* the list (with its Delete buttons) is not rendered while isLoading.
Rendered == life = "mounted" /\ ~isLoading
Displayed == {documents[n]._id : n \in 1..Len(documents)}

\* As FormInvalid, looking at the title only.
FormInvalidTitleOnly(nd) == ~Truthy(nd.title)

\* addDocument: !this.newDocument.title || !this.newDocument.content.
FormInvalid(nd) == ~Truthy(nd.title) \/ ~Truthy(nd.content)

\* As DocumentsAfterFetch, with the list emptied when getAllDocuments throws.
DocumentsAfterFetchCleared(result) ==
  IF result.kind = "return" THEN result.value ELSE <<>>

\* fetchDocuments: this.documents = await getAllDocuments(), not assigned
\* when the call throws.
DocumentsAfterFetch(result) ==
  IF result.kind = "return" THEN result.value ELSE documents

\* As LoadingAfterFinally, without the finally block.
LoadingAfterFinallyKept == isLoading

\* finally { this.isLoading = false }.
LoadingAfterFinally == FALSE

\* As FormAfterAdd, with the fields left as typed.
FormAfterAddKept == newDocument

\* addDocument after createDocument returned: both fields are set to ''.
FormAfterAdd == [title |-> EMPTY, content |-> EMPTY]

\* The argument addDocument gives to createDocument.
AddedDocument(t) ==
  [_id |-> NoId, _rev |-> NoRev, title |-> newDocument.title,
   content |-> newDocument.content, createdAt |-> toISOString(t)]

\* The component is created over a store that is empty or holds a document
\* of an earlier session.
StoredBefore ==
  [_id |-> 1, _rev |-> 1, title |-> "A", content |-> "x",
   createdAt |-> "2020-05-05T00:00:00Z"]

DriverInit ==
  /\ db = NULL
  /\ nextHandle = 0
  /\ closedH = {}
  /\ reachable \in BOOLEAN
  /\ docs \in {[i \in DocIds |-> NoDoc],
               [i \in DocIds |-> IF i = 1 THEN StoredBefore ELSE NoDoc]}
  /\ deleted = {}
  /\ now = 1
  /\ pc = [p \in Procs |-> "idle"]
  /\ call = [p \in Procs |-> NoCall]
  /\ req = [p \in Procs |-> NoReq]
  /\ local = [p \in Procs |-> NoLocal]
  /\ ret = [p \in Procs |-> NoRet]
  /\ nOps = 0
  /\ initOk = FALSE
  /\ closedSince = FALSE
  /\ lastWrite = [i \in DocIds |-> NoWrite]
  /\ seen = [p \in Procs |-> NoWrite]
  /\ rows = [p \in Procs |-> NotServed]
  /\ data

\* The user types into the form (v-model).
SetForm(title, content) ==
  /\ life = "mounted"
  /\ NoPending
  /\ newDocument' = [title |-> title, content |-> content]
  /\ newDocument' # newDocument
  /\ UNCHANGED <<svc, rows, databaseService, documents, status, isLoading, act,
                 life, lastFetch, uncaught>>

\* The store stops answering at dbUrl.
Disconnect ==
  /\ NoPending
  /\ reachable
  /\ reachable' = FALSE
  /\ UNCHANGED <<db, nextHandle, closedH, docs, deleted, now, pc, call, req,
                 local, ret, nOps, initOk, closedSince, lastWrite, seen, rows, drv>>

\* mounted() -> initializeDatabase(): the service is made and initialize() is
\* called.
Mounted ==
  /\ life = "created"
  /\ life' = "mounted"
  /\ databaseService' = TheService
  /\ \E q \in Procs :
       /\ Initialize(q)
       /\ Awaits(q, q, Frame("mounted", "initialize"))
  /\ UNCHANGED <<rows, documents, newDocument, status, isLoading, lastFetch,
                 uncaught>>

\* fetchDocuments(), called by the method in slot p (name), up to its await:
\* nothing without a service; else isLoading is set and getAllDocuments() is
\* called.  Without a service the caller's finally block runs at once.
FetchDocumentsCalled(p, name) ==
  IF databaseService = NULL
  THEN /\ Ends(p)
       /\ isLoading' = IF name = "mounted" THEN isLoading ELSE LoadingAfterFinally
       /\ UNCHANGED svc
  ELSE /\ isLoading' = TRUE
       /\ \E q \in Procs :
            /\ GetAllDocuments(q)
            /\ Awaits(p, q, Frame(name, "fetch"))

\* initializeDatabase(): initialize() has ended; status is set and
\* fetchDocuments() is called, or the catch block sets the error status.
InitializeDatabase(p) ==
  /\ Pending(p)
  /\ act[p].at = "initialize"
  /\ IF ret[p].kind = "throw"
     THEN /\ status' = Status(ret[p].error.message, "error")
          /\ Ends(p)
          /\ UNCHANGED <<svc, isLoading>>
     ELSE /\ status' = Status(MsgConnected, "success")
          /\ FetchDocumentsCalled(p, act[p].name)
  /\ UNCHANGED <<rows, databaseService, documents, newDocument, life, lastFetch,
                 uncaught>>

\* fetchDocuments(): getAllDocuments() has ended; the list and the status are
\* set, or the catch block sets the error status; finally isLoading = false.
\* The method that called fetchDocuments ends with it (its own finally block
\* sets isLoading = false again).
FetchDocuments(p) ==
  /\ Pending(p)
  /\ act[p].at = "fetch"
  /\ documents' = DocumentsAfterFetch(ret[p])
  /\ IF ret[p].kind = "return"
     THEN /\ status' = Status(MsgLoaded(Len(ret[p].value)), "success")
          /\ lastFetch' = "ok"
     ELSE /\ status' = Status(ret[p].error.message, "error")
          /\ lastFetch' = "failed"
  /\ isLoading' = LoadingAfterFinally
  /\ Ends(p)
  /\ UNCHANGED <<svc, rows, databaseService, newDocument, life, uncaught>>

\* addDocument(): the form is checked; then isLoading is set and
\* createDocument() is called with the clock's value t.
AddDocument(t) ==
  /\ Rendered
  /\ NoPending
  /\ IF FormInvalid(newDocument)
     THEN /\ status' = Status(MsgRequired, "error")
          /\ UNCHANGED <<svc, isLoading, act>>
     ELSE IF databaseService = NULL
     THEN UNCHANGED <<svc, status, isLoading, act>>
     ELSE /\ isLoading' = TRUE
          /\ \E q \in Procs :
               /\ CreateDocument(q, AddedDocument(t), t)
               /\ Awaits(q, q, Frame("addDocument", "create"))
          /\ UNCHANGED status
  /\ UNCHANGED <<rows, databaseService, documents, newDocument, life, lastFetch,
                 uncaught>>

\* addDocument(): createDocument() has ended; the status is set, the form is
\* cleared and fetchDocuments() is called, or the catch block sets the error
\* status and finally isLoading = false.
AddDocumentCreated(p) ==
  /\ Pending(p)
  /\ act[p].at = "create"
  /\ IF ret[p].kind = "return"
     THEN /\ status' = Status(MsgAdded, "success")
          /\ newDocument' = FormAfterAdd
          /\ FetchDocumentsCalled(p, act[p].name)
     ELSE /\ status' = Status(ret[p].error.message, "error")
          /\ isLoading' = LoadingAfterFinally
          /\ Ends(p)
          /\ UNCHANGED <<svc, newDocument>>
  /\ UNCHANGED <<rows, databaseService, documents, life, lastFetch, uncaught>>

\* deleteDocument(id) of the component, bound to the Delete button of a
\* displayed document: isLoading is set and the service's deleteDocument(id)
\* is called.
ComponentDeleteDocument(id) ==
  /\ Rendered
  /\ NoPending
  /\ id \in Displayed
  /\ IF databaseService = NULL
     THEN UNCHANGED <<svc, isLoading, act>>
     ELSE /\ isLoading' = TRUE
          /\ \E q \in Procs :
               /\ DeleteDocument(q, id)
               /\ Awaits(q, q, Frame("deleteDocument", "delete"))
  /\ UNCHANGED <<rows, databaseService, documents, newDocument, status, life,
                 lastFetch, uncaught>>

\* deleteDocument(id) of the component: the service's deleteDocument() has
\* ended; the status is set and fetchDocuments() is called, or the catch block
\* sets the error status and finally isLoading = false.
ComponentDeleteDocumentDeleted(p) ==
  /\ Pending(p)
  /\ act[p].at = "delete"
  /\ IF ret[p].kind = "return"
     THEN /\ status' = Status(MsgDeleted, "success")
          /\ FetchDocumentsCalled(p, act[p].name)
     ELSE /\ status' = Status(ret[p].error.message, "error")
          /\ isLoading' = LoadingAfterFinally
          /\ Ends(p)
          /\ UNCHANGED svc
  /\ UNCHANGED <<rows, databaseService, documents, newDocument, life, lastFetch,
                 uncaught>>

\* unmounted(): close() is called when there is a service.
Unmounted ==
  /\ life = "mounted"
  /\ NoPending
  /\ life' = "unmounted"
  /\ IF databaseService = NULL
     THEN UNCHANGED <<svc, act>>
     ELSE \E q \in Procs :
            /\ Close(q)
            /\ Awaits(q, q, Frame("unmounted", "close"))
  /\ UNCHANGED <<rows, databaseService, documents, newDocument, status,
                 isLoading, lastFetch, uncaught>>

\* unmounted(): close() has ended; an error it threw leaves the hook.
UnmountedClosed(p) ==
  /\ Pending(p)
  /\ act[p].at = "close"
  /\ uncaught' = (uncaught \/ ret[p].kind = "throw")
  /\ Ends(p)
  /\ UNCHANGED <<svc, rows, databaseService, documents, newDocument, status,
                 isLoading, life, lastFetch>>

\* The store answers a call of the component.
Answered(p) == NoPending /\ act[p] # NoAct /\ UNCHANGED <<rows, drv>>

\* The service as the mounted component calls it.
DriverNext ==
  \/ Mounted
  \/ \E title \in FormTitles : \E content \in FormContents : SetForm(title, content)
  \/ \E t \in now..MaxTime : AddDocument(t)
  \/ \E id \in DocIds : ComponentDeleteDocument(id)
  \/ Unmounted
  \/ Disconnect
  \/ \E p \in Procs : InitializeDatabase(p)
  \/ \E p \in Procs : FetchDocuments(p)
  \/ \E p \in Procs : AddDocumentCreated(p)
  \/ \E p \in Procs : ComponentDeleteDocumentDeleted(p)
  \/ \E p \in Procs : UnmountedClosed(p)
  \/ \E p \in Procs : InitializeInfo(p) /\ Answered(p)
  \/ \E p \in Procs : CreateDocumentPost(p) /\ Answered(p)
  \/ \E p \in Procs : AllDocsServed(p) /\ NoPending /\ UNCHANGED drv
  \/ \E p \in Procs : GetAllDocumentsAllDocs(p) /\ NoPending /\ UNCHANGED drv
  \/ \E p \in Procs : DeleteDocumentGet(p) /\ Answered(p)
  \/ \E p \in Procs : DeleteDocumentRemove(p) /\ Answered(p)
  \/ \E p \in Procs : CloseClose(p) /\ Answered(p)

DriverSpec == DriverInit /\ [][DriverNext]_vars

\* ------------------------------------------------------------- properties
\* The step is the call of a method, made in slot p.
Called(p) == CanCall(p) /\ nOps' = nOps + 1
\* The step ends the call in slot p that stood at label.
Ended(p, label) == pc[p] = label /\ pc'[p] = "done"
CrudOps == {"createDocument", "getAllDocuments", "getDocumentById",
            "updateDocument", "deleteDocument"}
FieldKeys == {"title", "content", "createdAt"}
\* The call in slot p is a getDocumentById that returned a document.
GotDocument(p) ==
  pc[p] = "done" /\ call[p].op = "getDocumentById" /\ ret[p].kind = "return"

\* C1: a createDocument, getAllDocuments, getDocumentById, updateDocument or
\* deleteDocument called while no initialize has succeeded yet (never called,
\* or its liveness check failed) throws the 'Database not initialized' error
\* and makes no store call.
C1_NotInitializedUntilInitializeSucceeds ==
  [][\A p \in Procs :
       (Called(p) /\ call'[p].op \in CrudOps /\ ~initOk)
         => (ret'[p] = NotInitialized /\ req'[p] = NoReq)]_vars

\* C2: an initialize whose liveness check db.info() failed throws the
\* ConnectionFailed error: message 'Failed to initialize database', the
\* underlying error as cause, and the store's status or 500 when it gives none.
C2_InitializeRejectsWhenUnreachable ==
  \A p \in Procs :
    (pc[p] = "done" /\ call[p].op = "initialize" /\ ~local[p].ok)
      => ret[p] = Throw(handleError(MsgInitialize, local[p].error))

\* C3: a close that completes leaves this.db null with close() called on the
\* handle; from then on (until initialize is called again) every other method
\* throws 'Database not initialized' without a store call and a further close
\* returns without a store call.
C3_CloseReleasesHandle ==
  [][\A p \in Procs :
       /\ (Ended(p, "close_close") /\ ret'[p].kind = "return")
            => (db' = NULL /\ req[p].h \in closedH')
       /\ (closedSince /\ Called(p) /\ call'[p].op # "initialize")
            => /\ db = NULL
               /\ req'[p] = NoReq
               /\ pc'[p] = "done"
               /\ ret'[p] = IF call'[p].op = "close" THEN Return(Void)
                            ELSE NotInitialized]_vars

C3_Witness ==
  /\ closedSince /\ initOk /\ closedH # {}
  /\ pc[1] = "done" /\ call[1].op = "updateDocument" /\ ret[1] = NotInitialized

\* C4: a getDocumentById served when the last write the store took for that id
\* was an updateDocument(id, partial) returns the prior document with the
\* partial's fields laid over it: supplied fields have the supplied value, the
\* others their prior value, the id is the same and the revision is another.
C4_UpdateThenGetIsMerge ==
  \A p \in Procs :
    (GotDocument(p) /\ seen[p].kind = "update")
      => LET d == ret[p].value
             w == seen[p]
         IN /\ d._id = call[p].id
            /\ d._id = w.prior._id
            /\ d._rev # w.prior._rev
            /\ d._rev = w.rev
            /\ \A k \in FieldKeys :
                 d[k] = IF w.input[k] # ABSENT THEN w.input[k] ELSE w.prior[k]

C4_Witness ==
  \E p \in Procs :
    /\ GotDocument(p) /\ seen[p].kind = "update"
    /\ seen[p].input.title = "B" /\ seen[p].prior.title = "A"
    /\ ret[p].value.title = "B" /\ ret[p].value.content = "x"

\* C5: no step changes the createdAt of a document the store holds.
C5_CreatedAtImmutable ==
  [][\A i \in DocIds :
       docs[i] # NoDoc => docs'[i].createdAt = docs[i].createdAt]_vars

\* The put of the updateDocument in slot p is in flight and the store's
\* revision of the document is no longer the one the call read.
StalePut(p) ==
  /\ pc[p] = "updateDocument_put"
  /\ docs[call[p].id]._rev # local[p].doc._rev

\* C6: when the document changed between the read and the write of an
\* updateDocument, the answer to its put ends the call with the 'Failed to
\* update document' error (cause: the store's 409 conflict whenever the store
\* answers), no further request is made, and the store is left as it was.
C6_StaleUpdateRejected ==
  [][\A p \in Procs :
       (StalePut(p) /\ pc'[p] # pc[p])
         => /\ pc'[p] = "done"
            /\ req'[p] = NoReq
            /\ ret'[p].kind = "throw"
            /\ ret'[p].error.message = MsgUpdate(call[p].id)
            /\ TransportErrors(req[p]) = {}
                 => ret'[p] = Throw(handleError(MsgUpdate(call[p].id), Conflict))
            /\ docs' = docs
            /\ deleted' = deleted]_vars

C6_Witness ==
  \E p \in Procs :
    /\ pc[p] = "done" /\ call[p].op = "updateDocument"
    /\ ret[p] = Throw(handleError(MsgUpdate(call[p].id), Conflict))
    /\ ret[p].error.status = 409
    /\ docs[call[p].id]._rev # local[p].doc._rev
    /\ lastWrite[call[p].id].kind \in {"update", "delete"}

\* C7: every put made by updateDocument carries the id given as argument and
\* the revision of the document the call has just read, whatever _id or _rev
\* the partial names.
C7_PutCarriesReadRevision ==
  \A p \in Procs :
    req[p].op = "put"
      => /\ call[p].op = "updateDocument"
         /\ local[p].ok
         /\ req[p].doc._id = call[p].id
         /\ req[p].doc._rev = local[p].doc._rev

C7_Witness ==
  \E p \in Procs :
    /\ req[p].op = "put"
    /\ call[p].doc._id # NoId /\ call[p].doc._id # call[p].id
    /\ call[p].doc._rev # NoRev /\ call[p].doc._rev # local[p].doc._rev

\* createdAt as Document allows it at creation: missing or a timestamp.
ValidNewDocument(document) == document.createdAt # EMPTY

\* C8: a getDocumentById served when the last write the store took for that id
\* was the createDocument that made it returns the user fields given to create,
\* the id asked for, the first revision, and createdAt as supplied or, when
\* none was supplied, the clock's value at the call of createDocument.
C8_CreateThenGet ==
  \A p \in Procs :
    (GotDocument(p) /\ seen[p].kind = "create" /\ ValidNewDocument(seen[p].input))
      => LET d == ret[p].value
             w == seen[p]
         IN /\ \A k \in UserKeys : d[k] = w.input[k]
            /\ d._id = call[p].id
            /\ d._rev = w.rev
            /\ d.createdAt = IF w.input.createdAt # ABSENT THEN w.input.createdAt
                             ELSE toISOString(w.at)

C8_Witness ==
  \E p \in Procs :
    /\ GotDocument(p) /\ seen[p].kind = "create"
    /\ seen[p].input.createdAt = ABSENT
    /\ seen[p].at = MaxTime
    /\ ret[p].value.title = "A"

\* C9: once deleteDocument(id) has succeeded, the answer to a getDocumentById(id)
\* ends it with the 'Failed to fetch document' error (cause: the store's 404
\* whenever the store answers), and no list returned by getAllDocuments has
\* the document.
C9_DeletedIsGone ==
  [][\A p \in Procs :
       /\ (Ended(p, "getDocumentById_get") /\ lastWrite[call[p].id].kind = "delete")
            => /\ ret'[p].kind = "throw"
               /\ ret'[p].error.message = MsgFetch(call[p].id)
               /\ TransportErrors(req[p]) = {}
                    => ret'[p] = Throw(handleError(MsgFetch(call[p].id), NotFound))
       /\ (Ended(p, "getAllDocuments_allDocs") /\ ret'[p].kind = "return")
            => \A n \in 1..Len(ret'[p].value) :
                 lastWrite[ret'[p].value[n]._id].kind # "delete"]_vars

C9_Witness ==
  \E p \in Procs :
    /\ pc[p] = "done" /\ call[p].op = "getDocumentById"
    /\ seen[p].kind = "delete"
    /\ ret[p].kind = "throw" /\ ret[p].error.status = 404

\* C10: when the store answers the read of a deleteDocument(id) and holds no
\* document under id, the call ends with the 'Failed to delete document' error
\* with the read's 404, no remove is requested, the store and the connection
\* are left as they were; and every getAllDocuments the store answers returns
\* the list.
C10_DeleteMissing ==
  [][\A p \in Procs :
       /\ (pc[p] = "deleteDocument_get" /\ pc'[p] # pc[p]
           /\ TransportErrors(req[p]) = {} /\ ~Live(call[p].id))
            => /\ pc'[p] = "done"
               /\ req'[p] = NoReq
               /\ ret'[p] = Throw(handleError(MsgDelete(call[p].id), NotFound))
               /\ ret'[p].error.status = 404
               /\ UNCHANGED <<docs, deleted, db, closedH>>
       /\ (Ended(p, "getAllDocuments_allDocs") /\ TransportErrors(req[p]) = {})
            => ret'[p] = Return(StoreAllDocs)]_vars

C10_Witness ==
  \E p, q \in Procs :
    /\ pc[p] = "done" /\ call[p].op = "deleteDocument"
    /\ ret[p] = Throw(handleError(MsgDelete(call[p].id), NotFound))
    /\ docs[call[p].id] = NoDoc
    /\ pc[q] = "done" /\ call[q].op = "getAllDocuments" /\ ret[q].kind = "return"

\* The first store call of the call ended in slot p was rejected.
StoreCallFailed(p) ==
  pc[p] = "done" /\ "none" \notin DOMAIN local[p] /\ ~local[p].ok
\* The message a failure of the call c carries.
FailureMessages(c) ==
  {MsgNotInitialized} \cup
    (CASE c.op = "initialize" -> {MsgInitialize}
       [] c.op = "createDocument" -> {MsgCreate}
       [] c.op = "getAllDocuments" -> {MsgFetchAll}
       [] c.op = "getDocumentById" -> {MsgFetch(c.id)}
       [] c.op = "updateDocument" -> {MsgUpdate(c.id)}
       [] c.op = "deleteDocument" -> {MsgDelete(c.id)}
       [] OTHER -> {})

\* C11: every call whose store call failed ends with a throw, and every error
\* thrown by any method is {status, message, cause} with status the status of
\* the cause, or 500 when the cause has none, and the message of the method
\* (with the id when the method takes one).
C11_UniformErrorShape ==
  \A p \in Procs :
    /\ StoreCallFailed(p) => ret[p].kind = "throw"
    /\ (pc[p] = "done" /\ ret[p].kind = "throw")
         => /\ DOMAIN ret[p].error = {"status", "message", "error"}
            /\ ret[p].error.message \in FailureMessages(call[p])
            /\ ret[p].error.status =
                 IF ret[p].error.error.status # NoStatus
                 THEN ret[p].error.error.status ELSE 500

\* Handles whose close() has completed.
Released ==
  {h \in closedH :
     \A q \in Procs : ~(pc[q] = "close_close" /\ req[q].h = h /\ ~req[q].closed)}
\* The answer to the read of the updateDocument or deleteDocument in slot p
\* arrives, with a document, after the close of the handle it read from.
ResumedAfterClose(p) ==
  /\ pc[p] \in {"updateDocument_get", "deleteDocument_get"}
  /\ pc'[p] # pc[p]
  /\ req[p].h \in Released
  /\ db = NULL
  /\ TransportErrors(req[p]) = {}
  /\ Live(call[p].id)

\* C20: no step makes a store request on a handle whose close() has completed;
\* an updateDocument or deleteDocument whose read is answered after the close
\* completed (the service still closed) ends with the method's error of status
\* 500, makes no request and leaves the store as it was.
C20_NoCallOnReleasedHandle ==
  [][\A p \in Procs :
       /\ (req'[p] # req[p] /\ req'[p] # NoReq) => req'[p].h \notin Released
       /\ ResumedAfterClose(p)
            => /\ pc'[p] = "done"
               /\ req'[p] = NoReq
               /\ ret'[p].kind = "throw"
               /\ ret'[p].error.status = 500
               /\ ret'[p].error.message \in FailureMessages(call[p])
               /\ ret'[p].error.message # MsgNotInitialized
               /\ UNCHANGED <<docs, deleted>>]_vars

C20_Witness ==
  \E p \in Procs :
    /\ pc[p] = "done" /\ call[p].op \in {"updateDocument", "deleteDocument"}
    /\ local[p].ok
    /\ ret[p] = Throw(handleError(IF call[p].op = "updateDocument"
                                  THEN MsgUpdate(call[p].id)
                                  ELSE MsgDelete(call[p].id), TypeError))
    /\ db = NULL /\ closedSince /\ closedH # {}
    /\ docs[call[p].id] = local[p].doc

\* The step is addDocument() of the component, invoked by the form's submit.
AddDocumentInvoked == \E t \in now..MaxTime : AddDocument(t)

\* C12: addDocument() invoked while the title or the content is empty calls no
\* method of the service and makes no store request, sets the status to
\* {message: 'Title and content are required', type: 'error'} and leaves
\* isLoading, the list and the form as they were, whether the service is
\* connected or not.
C12_AddRejectsEmptyFields ==
  [][(AddDocumentInvoked
      /\ (newDocument.title = EMPTY \/ newDocument.content = EMPTY))
       => /\ status' = [message |-> MsgRequired, type |-> "error"]
          /\ nOps' = nOps
          /\ req' = req
          /\ UNCHANGED <<isLoading, documents, newDocument>>]_vars

C12_Witness ==
  /\ status = [message |-> MsgRequired, type |-> "error"]
  /\ newDocument.title = "A" /\ newDocument.content = EMPTY
  /\ ~initOk /\ db # NULL
  /\ documents = <<>> /\ ~isLoading

\* The step is the continuation of the component method awaiting slot p.
Continued(p) == Pending(p) /\ act' # act
\* The call a component method awaits in slot p failed: its store call was
\* rejected, or it threw.
FailedCall(p) == StoreCallFailed(p) \/ (pc[p] = "done" /\ ret[p].kind = "throw")

\* C13: on mount, when the liveness check of initialize() failed, the component
\* goes on with status {message: 'Failed to initialize database', type:
\* 'error'}, calls no getAllDocuments and keeps the list empty.
C13_MountFailureShown ==
  [][\A p \in Procs :
       (InitializeDatabase(p) /\ StoreCallFailed(p))
         => /\ status' = [message |-> MsgInitialize, type |-> "error"]
            /\ nOps' = nOps
            /\ req' = req
            /\ documents' = <<>>]_vars

\* C14: when the call a component method awaits has failed, the method ends
\* there without an error leaving it and, but for unmounted(), with the status
\* of type 'error' carrying the message of the failure.
C14_ErrorsCaughtAtBoundary ==
  [][\A p \in Procs :
       (Continued(p) /\ FailedCall(p))
         => /\ ~uncaught'
            /\ act'[p] = NoAct
            /\ nOps' = nOps
            /\ act[p].name # "unmounted"
                 => /\ status'.type = "error"
                    /\ status'.message \in FailureMessages(call[p])]_vars

\* Where a fetchDocuments, addDocument or deleteDocument of the component
\* stands once it has made its call.
LoadingAts == {"fetch", "create", "delete"}
\* The step ends the component method awaiting slot p.
Completed(p) == Continued(p) /\ act' = [act EXCEPT ![p] = NoAct]

\* C15: the step that ends a fetchDocuments, addDocument or deleteDocument
\* which had made its call leaves isLoading false, whether the call returned or
\* threw; and isLoading is true only while such a method awaits a call.
C15_LoadingResetOnCompletion ==
  [][/\ \A p \in Procs :
          (Completed(p) /\ act[p].at \in LoadingAts) => ~isLoading'
     /\ isLoading' => \E p \in Procs : act'[p].at \in LoadingAts]_vars

C15_Witness ==
  /\ ~isLoading
  /\ \A p \in Procs : act[p] = NoAct
  /\ status = [message |-> MsgCreate, type |-> "error"]
  /\ \E p \in Procs : call[p].op = "createDocument" /\ StoreCallFailed(p)

\* The component method awaiting slot p is an addDocument or deleteDocument
\* whose createDocument / deleteDocument call has ended.
Mutated(p) == Pending(p) /\ act[p].at \in {"create", "delete"}
\* The step calls getAllDocuments for the component method named name.
RefreshCalled(name) ==
  /\ nOps' = nOps + 1
  /\ \E q \in Procs :
       /\ CanCall(q)
       /\ call'[q].op = "getAllDocuments"
       /\ act'[q] = [name |-> name, at |-> "fetch"]

\* C16: when the createDocument (deleteDocument) call of addDocument
\* (deleteDocument) has returned, the continuation calls getAllDocuments once,
\* and addDocument sets both form fields to ''; when it has thrown, the
\* continuation calls nothing, leaves the form and ends the method with a
\* status of type 'error'.  The refresh made, the method calls nothing more,
\* and no addDocument / deleteDocument calls getAllDocuments otherwise.
C16_RefreshAfterMutation ==
  [][\A p \in Procs :
       /\ (Mutated(p) /\ Continued(p) /\ ret[p].kind = "return")
            => /\ RefreshCalled(act[p].name)
               /\ act[p].at = "create"
                    => newDocument' = [title |-> EMPTY, content |-> EMPTY]
       /\ (Mutated(p) /\ Continued(p) /\ ret[p].kind = "throw")
            => /\ nOps' = nOps
               /\ req' = req
               /\ newDocument' = newDocument
               /\ status'.type = "error"
               /\ Completed(p)
       /\ (Continued(p) /\ act[p].at = "fetch")
            => (nOps' = nOps /\ Completed(p))
       /\ (act'[p] # act[p] /\ act'[p].at = "fetch"
           /\ act'[p].name \in {"addDocument", "deleteDocument"})
            => \E q \in Procs :
                 /\ Mutated(q) /\ ret[q].kind = "return"
                 /\ act[q].name = act'[p].name]_vars

C16_Witness ==
  /\ \A p \in Procs : act[p] = NoAct
  /\ lastFetch = "ok"
  /\ newDocument = [title |-> EMPTY, content |-> EMPTY]
  /\ status = [message |-> MsgLoaded(2), type |-> "success"]
  /\ Len(documents) = 2
  /\ documents[1].createdAt = toISOString(MaxTime)

\* C17: the continuation of a fetchDocuments whose getAllDocuments call threw
\* leaves the list as it was, and of the component's data changes the status
\* (to type 'error') and isLoading only.
C17_FailedRefreshKeepsList ==
  [][\A p \in Procs :
       (Continued(p) /\ act[p].at = "fetch" /\ ret[p].kind = "throw")
         => /\ documents' = documents
            /\ UNCHANGED <<newDocument, databaseService>>
            /\ status' = [message |-> ret[p].error.message, type |-> "error"]
            /\ ~isLoading']_vars

C17_Witness ==
  /\ lastFetch = "failed"
  /\ documents # <<>>
  /\ status = [message |-> MsgFetchAll, type |-> "error"]
  /\ ~isLoading
  /\ \A p \in Procs : act[p] = NoAct

\* No component method is awaiting a call.
Quiescent == \A p \in Procs : act[p] = NoAct

\* C18: whenever no component method is in progress and the last
\* fetchDocuments that ended had its getAllDocuments return, the list
\* displayed is the list of the documents the store holds.
C18_ListMatchesStoreWhenQuiescent ==
  (Quiescent /\ lastFetch = "ok") => documents = StoreAllDocs

\* C19: isLoading is true whenever a store request made for a fetchDocuments,
\* addDocument or deleteDocument of the component is in flight.
C19_LoadingWhileInFlight ==
  (\E p \in Procs : act[p].at \in LoadingAts /\ req[p] # NoReq) => isLoading

====
